---------------------------- MODULE Spec2Model ----------------------------
(***************************************************************************)
(* A model of sync.py (immich_variety_sync): the periodic mirror of a      *)
(* remote photo library into a bounded local wallpaper directory.          *)
(*                                                                         *)
(* Text is modelled as sequences of one-character strings, so that the     *)
(* filename derivation (splitext, sanitisation, strip) and the orphan      *)
(* test (substring) are computed the way the code computes them.           *)
(* The directory is a function from the names of the existing files to     *)
(* their stat record; time is a counter.                                   *)
(***************************************************************************)
EXTENDS Integers, Sequences, FiniteSets, TLC

(***************************************************************************)
(* Bounds of the model.                                                    *)
(***************************************************************************)
\* number of sync cycles the loop of sync_loop is followed for
MaxCycles == 2
\* the clock stops advancing here
MaxTime == 4
\* largest mtime of a file found in the directory at start
MaxMtime0 == 1
\* largest RANDOM_SELECT / MAX_IMAGES / MAX_LOCAL_GB configured
MaxSelect == 1
MaxImages == 1
\* enforce_limits alone: largest mtime in the directory, largest MAX_IMAGES
LimitsMaxMtime == 3
LimitsMaxImages == 2
\* the selection alone: largest RANDOM_SELECT
SelectMaxRandom == 3
\* get_filename alone: longest originalFileName of the first and of the
\* second asset
MaxNameLen == 3
MaxNameLen2 == 1
\* resize_and_pad alone: longest side of a picture, largest side of a target
MaxSide == 4
MaxTarget == 4

(***************************************************************************)
(* Text.                                                                   *)
(***************************************************************************)
Letters == {"a", "b", "c", "g", "h", "i", "j", "m", "o", "p", "t", "y", "z", "M", "P"}
Digits == {"1", "2", "3", "9"}

\* str.isalnum() of one character
IsAlnum(c) == c \in Letters \cup Digits

\* the sanitisation without ' ', '-' and '_'
KeptAlnumOnly(c) == IsAlnum(c)

\* the characters get_filename keeps in the base name (line 59)
Kept(c) == IsAlnum(c) \/ c \in {" ", "-", "_"}

\* "".join(c for c in s if keep(c))
RECURSIVE Sanitize(_)
Sanitize(s) ==
    IF s = <<>> THEN <<>>
    ELSE IF Kept(Head(s)) THEN <<Head(s)>> \o Sanitize(Tail(s))
    ELSE Sanitize(Tail(s))

\* str.lstrip / str.rstrip / str.strip (whitespace of the alphabet: " ")
RECURSIVE LStrip(_)
LStrip(s) == IF s # <<>> /\ Head(s) = " " THEN LStrip(Tail(s)) ELSE s

RECURSIVE RStrip(_)
RStrip(s) ==
    IF s # <<>> /\ s[Len(s)] = " " THEN RStrip(SubSeq(s, 1, Len(s) - 1)) ELSE s

Strip(s) == RStrip(LStrip(s))

\* str.rfind of one character: the last index of c in s, 0 when absent
LastIndex(s, c) ==
    LET I == {i \in 1..Len(s) : s[i] = c}
    IN  IF I = {} THEN 0 ELSE CHOOSE i \in I : \A j \in I : j <= i

\* os.path.splitext (posixpath / genericpath._splitext): the extension starts
\* at the last dot of the last path component, unless that component has only
\* dots before it
SplitExt(p) ==
    LET sepIndex == LastIndex(p, "/")
        dotIndex == LastIndex(p, ".")
        hasExt   == /\ dotIndex > sepIndex
                    /\ \E i \in (sepIndex + 1)..(dotIndex - 1) : p[i] # "."
    IN  IF hasExt
        THEN [base |-> SubSeq(p, 1, dotIndex - 1), ext |-> SubSeq(p, dotIndex, Len(p))]
        ELSE [base |-> p, ext |-> <<>>]

\* dict.get(key, default)
Get(d, key, default) == IF key \in DOMAIN d THEN d[key] ELSE default

DefaultName == <<"i", "m", "g">>

\* the step get_filename applies to the base name (line 59)
CleanBase(base) == Strip(Sanitize(base))

\* the derived name without the id of the asset
get_filename_without_id(asset) ==
    LET parts == SplitExt(Get(asset, "originalFileName", DefaultName))
    IN  CleanBase(parts.base) \o parts.ext

\* get_filename(asset): <sanitised base>-<id><ext>
get_filename(asset) ==
    LET parts == SplitExt(Get(asset, "originalFileName", DefaultName))
    IN  CleanBase(parts.base) \o <<"-">> \o asset.id \o parts.ext

\* f.startswith(a) in the place of the test of line 252
IsPrefix(a, f) == Len(a) <= Len(f) /\ SubSeq(f, 1, Len(a)) = a

\* a in f, for strings (the orphan test of line 252)
IsSubstring(a, f) ==
    \E i \in 0..(Len(f) - Len(a)) : SubSeq(f, i + 1, i + Len(a)) = a

\* f.startswith('.')
StartsWithDot(f) == f # <<>> /\ Head(f) = "."


(***************************************************************************)
(* The remote library and the local directory the model runs against.     *)
(***************************************************************************)
\* ALBUM_IDS (line 16), in the configured order
ALBUM_IDS == <<"A", "B">>
Albums == {ALBUM_IDS[i] : i \in 1..Len(ALBUM_IDS)}

ID1 == <<"a", "1">>
ID2 == <<"b", "2">>
ID3 == <<"c", "3">>
AssetIds == {ID1, ID2, ID3}
\* the order in which the server lists the items of an album
IdOrder == <<ID1, ID2, ID3>>

\* originalFileName of each remote asset
NameOf(id) ==
    CASE id = ID1 -> <<"p", ".", "j">>
      [] id = ID2 -> <<"m", ":", "y", ".", "j">>
      [] OTHER    -> <<"o", " ", ".", "j">>

\* the asset record the server returns for id when favs are the favourites
AssetRecord(id, favs) ==
    [id |-> id, originalFileName |-> NameOf(id), isFavorite |-> id \in favs]

\* files of the directory that no asset of the library accounts for
HiddenFile == <<".", "h">>
OrphanFile == <<"o", "-", "z", "9", ".", "j">>

\* 1 GiB, the factor of line 211
GiB == 1024 * 1024 * 1024

\* the length in bytes of the content download_asset writes to file f (the
\* asset's bytes, letterboxed or not)
OrigBytes(f) ==
    CASE f = get_filename(AssetRecord(ID1, {})) -> GiB \div 2
      [] f = get_filename(AssetRecord(ID2, {})) -> GiB \div 2
      [] f = get_filename(AssetRecord(ID3, {})) -> 1
      [] OTHER -> GiB \div 4

\* the bytes a file holds: the whole content ("whole") or, while it is
\* written and after an interrupted write, a prefix of it ("part")
Bytes(f, content) == IF content = "whole" THEN OrigBytes(f) ELSE OrigBytes(f) \div 2

(***************************************************************************)
(* State.                                                                  *)
(***************************************************************************)
VARIABLES
    \* os.environ after load_dotenv (line 11): name -> value, for the names set
    environ,
    \* configuration, read once at import (lines 17-25) and the --once flag
    ALBUMS_FAVORITES, RANDOM_SELECT, MAX_IMAGES, MAX_LOCAL_GB, TARGET_SIZE, once,
    \* resize_and_pad: the size of the decoded picture it is given, and what it
    \* returns
    image, output,
    \* the remote library: [albums: album -> set of ids, favs: set of ids,
    \* bad: album -> number of well-formed items before a malformed one, or -1]
    remote,
    \* DOWNLOAD_PATH: name -> [mtime, size, content]
    dir,
    \* time.time()
    now,
    \* position of sync_loop / download_asset / enforce_limits
    pc,
    \* number of the running cycle
    cycle,
    \* locals of sync_loop
    assets, has_error, protected_filenames, selection, idx, downloaded_count,
    \* locals of enforce_limits
    files, total_size, deleted_count,
    \* history of the running cycle: per-album fetch outcome, removals
    \* ([name, by]), files created, asset ids requested from the server,
    \* failed removals, whether anything failed or any limit was exceeded
    outcome, deleted, downloaded, requests, del_failed, clean,
    \* the directory at the start of the cycle, and the summary of the cycle
    \* before: the library it saw, whether it was clean, the time it ended (the
    \* time of the start for the first cycle)
    dir0, prev

config == <<environ, ALBUMS_FAVORITES, RANDOM_SELECT, MAX_IMAGES, MAX_LOCAL_GB,
           TARGET_SIZE, once>>
picture == <<image, output>>
locals == <<assets, has_error, protected_filenames, selection, idx, downloaded_count>>
limit_locals == <<files, total_size, deleted_count>>
history == <<outcome, deleted, downloaded, requests, del_failed, clean, dir0, prev>>
vars == <<config, picture, remote, dir, now, pc, cycle, locals, limit_locals, history>>

\* os.getenv(name, default)
Getenv(name, default) == IF name \in DOMAIN environ THEN environ[name] ELSE default

\* lines 14-15 (the '/' that rstrip removes plays no part in the model)
DefaultUrl == "http://192.168.1.100:2283"
IMMICH_URL == Getenv("IMMICH_URL", DefaultUrl)
API_KEY == Getenv("API_KEY", "")

\* an environment that sets both, and the environments the process can find
Configured == [IMMICH_URL |-> "v", API_KEY |-> "v"]
Environs ==
    UNION {[S -> {"", "v"}] : S \in SUBSET {"IMMICH_URL", "API_KEY"}}

\* no picture: resize_and_pad is not called
NoImage == [kind |-> "none"]
NoTransform == TARGET_SIZE = <<>> /\ image = NoImage /\ output = NoImage

\* set of the elements of a sequence
Range(s) == {s[i] : i \in 1..Len(s)}

\* a directory without file f (os.remove succeeded)
Without(d, f) == [g \in (DOMAIN d) \ {f} |-> d[g]]

\* a directory with file f set to record r
With(d, f, r) == [g \in (DOMAIN d) \cup {f} |-> IF g = f THEN r ELSE d[g]]


(***************************************************************************)
(* get_assets (lines 29-51).                                               *)
(***************************************************************************)
\* the items of the album's response, in the server's order
AlbumItems(album, rem) ==
    LET Member(id) == id \in rem.albums[album]
        ids == SelectSeq(IdOrder, Member)
    IN  [i \in 1..Len(ids) |-> AssetRecord(ids[i], rem.favs)]

\* assets[item['id']] = item (line 43): a dict keeps the place of a key it has
Insert(as, item) ==
    IF \E i \in 1..Len(as) : as[i].id = item.id
    THEN [i \in 1..Len(as) |-> IF as[i].id = item.id THEN item ELSE as[i]]
    ELSE Append(as, item)

\* the loop of lines 42-43 over the first n items
RECURSIVE InsertFirst(_, _, _)
InsertFirst(as, items, n) ==
    IF n = 0 THEN as
    ELSE Insert(InsertFirst(as, items, n - 1), items[n])

\* What one request of line 38 can end in:
\*   ok      status 200, every item read;
\*   non200  another status (lines 44-46);
\*   exc     an exception (lines 47-49) raised after `pre` items were stored:
\*           a transport or JSON error (pre = 0), or the KeyError of line 43
\*           on an item without 'id' that follows pre well-formed ones.
Responses(album, rem) ==
    {[kind |-> "non200", pre |-> 0], [kind |-> "exc", pre |-> 0]}
    \cup (IF rem.bad[album] < 0
          THEN {[kind |-> "ok", pre |-> 0]}
          ELSE {[kind |-> "exc", pre |-> rem.bad[album]]})

\* the loop of lines 35-49 from album number i on
RECURSIVE FetchFrom(_, _, _, _, _)
FetchFrom(i, as, err, resp, rem) ==
    IF i > Len(ALBUM_IDS) THEN [assets |-> as, has_error |-> err]
    ELSE LET album == ALBUM_IDS[i]
             items == AlbumItems(album, rem)
             r     == resp[album]
         IN  CASE r.kind = "ok" ->
                    FetchFrom(i + 1, InsertFirst(as, items, Len(items)), err, resp, rem)
               [] r.kind = "non200" ->
                    FetchFrom(i + 1, as, TRUE, resp, rem)
               [] OTHER ->
                    FetchFrom(i + 1, InsertFirst(as, items, r.pre), TRUE, resp, rem)

get_assets(resp, rem) == FetchFrom(1, <<>>, FALSE, resp, rem)

\* line 231: assets, has_error = get_assets()
Fetch ==
    /\ pc = "fetch"
    /\ \E resp \in [Albums -> [kind : {"ok", "non200", "exc"}, pre : 0..Len(IdOrder)]] :
          /\ \A a \in Albums : resp[a] \in Responses(a, remote)
          /\ LET r == get_assets(resp, remote)
             IN  /\ assets' = r.assets
                 /\ has_error' = r.has_error
                 /\ clean' = (clean /\ ~r.has_error)
          /\ outcome' = [a \in Albums |-> IF resp[a].kind = "ok" THEN "ok" ELSE "failed"]
    /\ pc' = "purge"
    /\ UNCHANGED <<config, picture, remote, dir, now, cycle, protected_filenames, selection,
                   idx, downloaded_count, limit_locals, deleted, downloaded,
                   requests, del_failed, dir0, prev>>

(***************************************************************************)
(* sync_loop: protected set and orphan purge (lines 233-263).              *)
(***************************************************************************)
\* asset.get('isFavorite'), as a condition
IsFavorite(asset) == Get(asset, "isFavorite", FALSE) = TRUE

\* no file protected
ProtectedNone(as, favourites_on) == {}

\* lines 235-241
ProtectedOf(as, favourites_on) ==
    IF favourites_on
    THEN {get_filename(as[i]) : i \in {j \in 1..Len(as) : IsFavorite(as[j])}}
    ELSE {}

\* lines 246-256: the files the purge removes, given the valid ids
Orphans(local_files, valid_asset_ids) ==
    {f \in local_files :
        /\ ~StartsWithDot(f)
        /\ ~\E aid \in valid_asset_ids : IsSubstring(aid, f)}

\* the purge without the gate of line 245
PurgeAlways(err) == TRUE

\* line 245: the purge runs only after a fetch without error
PurgeAllowed(err) == ~err

OrphanPurge ==
    /\ pc = "purge"
    /\ protected_filenames' = ProtectedOf(assets, ALBUMS_FAVORITES)
    /\ LET valid_asset_ids == {assets[i].id : i \in 1..Len(assets)}
           local_files == DOMAIN dir
           orphans == IF PurgeAllowed(has_error)
                      THEN Orphans(local_files, valid_asset_ids) ELSE {}
       IN  \E failed \in SUBSET orphans :
              /\ dir' = [f \in (DOMAIN dir) \ (orphans \ failed) |-> dir[f]]
              /\ deleted' = deleted \cup
                            {[name |-> f, by |-> "orphan"] : f \in orphans \ failed}
              /\ del_failed' = del_failed \cup failed
              /\ clean' = (clean /\ failed = {})
    /\ pc' = "select"
    /\ UNCHANGED <<config, picture, remote, now, cycle, assets, has_error, selection, idx,
                   downloaded_count, limit_locals, outcome, downloaded, requests,
                   dir0, prev>>

(***************************************************************************)
(* sync_loop: selection (lines 265-284).                                   *)
(***************************************************************************)
\* random.choices(population, k = k): positions may repeat
SampleWithReplacement(population, k) ==
    {[i \in 1..k |-> population[pos[i]]] : pos \in [1..k -> 1..Len(population)]}

\* random.sample(population, k): k elements at distinct positions, in any order
Sample(population, k) ==
    {[i \in 1..k |-> population[pos[i]]] :
        pos \in {q \in [1..k -> 1..Len(population)] :
                    \A i, j \in 1..k : i # j => q[i] # q[j]}}

\* the selections lines 266-284 can build
Selections(as, favourites_on, random_select) ==
    LET NotFavorite(a) == ~IsFavorite(a)
        favorites == IF favourites_on THEN SelectSeq(as, IsFavorite) ELSE <<>>
        others    == IF favourites_on THEN SelectSeq(as, NotFavorite) ELSE as
    IN  IF random_select > 0 /\ Len(others) > random_select
        THEN {favorites \o s : s \in Sample(others, random_select)}
        ELSE {favorites \o others}

Select ==
    /\ pc = "select"
    /\ selection' \in Selections(assets, ALBUMS_FAVORITES, RANDOM_SELECT)
    /\ idx' = 1
    /\ downloaded_count' = 0
    /\ pc' = "download"
    /\ UNCHANGED <<config, picture, remote, dir, now, cycle, assets, has_error,
                   protected_filenames, limit_locals, history>>


(***************************************************************************)
(* download_asset (lines 144-172), called by the loop of lines 287-290.    *)
(***************************************************************************)
\* the clock after a file operation: it moves on, until at MaxTime the
\* operations that follow in the cycle share one timestamp (a coarse clock)
Later(t) == IF t < MaxTime THEN t + 1 ELSE t

\* the asset the loop of line 288 is at, and its path (lines 146-147)
Current == selection[idx]
CurrentFile == get_filename(Current)

\* download_asset without the test of line 149
ExistsNever(d, f) == FALSE

\* line 149: os.path.exists(path)
Exists(d, f) == f \in DOMAIN d

\* the loop of line 288 left before its last asset
DownloadLoopEndEarly ==
    /\ pc = "download"
    /\ pc' = "limits"
    /\ UNCHANGED <<config, picture, remote, dir, now, cycle, locals, limit_locals,
                   history>>

\* line 288: the loop is over
DownloadLoopEnd ==
    /\ pc = "download"
    /\ idx > Len(selection)
    /\ pc' = "limits"
    /\ UNCHANGED <<config, picture, remote, dir, now, cycle, locals, limit_locals, history>>

\* lines 149-154 without the os.utime of line 153
DownloadSkip ==
    /\ pc = "download"
    /\ idx <= Len(selection)
    /\ Exists(dir, CurrentFile)
    /\ idx' = idx + 1
    /\ UNCHANGED <<config, picture, remote, dir, now, pc, cycle, assets, has_error,
                   protected_filenames, selection, downloaded_count, limit_locals,
                   history>>

\* lines 149-154: the file exists, os.utime succeeds, return False
DownloadRefresh ==
    /\ pc = "download"
    /\ idx <= Len(selection)
    /\ Exists(dir, CurrentFile)
    /\ dir' = [dir EXCEPT ![CurrentFile].mtime = now]
    /\ now' = Later(now)
    /\ idx' = idx + 1
    /\ UNCHANGED <<config, picture, remote, pc, cycle, assets, has_error, protected_filenames,
                   selection, downloaded_count, limit_locals, history>>

\* line 153 is outside the try of line 157: an OSError of os.utime (a file
\* the process may not touch, a read-only mount, a file removed meanwhile)
\* leaves download_asset and sync_loop
DownloadUtimeRaises ==
    /\ pc = "download"
    /\ idx <= Len(selection)
    /\ Exists(dir, CurrentFile)
    /\ pc' = "crashed"
    /\ clean' = FALSE
    /\ UNCHANGED <<config, picture, remote, dir, now, cycle, locals, limit_locals, outcome,
                   deleted, downloaded, requests, del_failed, dir0, prev>>

\* lines 158-172: the request fails (status, exception) or open() raises:
\* nothing is created, return False
DownloadFails ==
    /\ pc = "download"
    /\ idx <= Len(selection)
    /\ ~Exists(dir, CurrentFile)
    /\ requests' = requests \cup {Current.id}
    /\ clean' = FALSE
    /\ idx' = idx + 1
    /\ UNCHANGED <<config, picture, remote, dir, now, pc, cycle, assets, has_error,
                   protected_filenames, selection, downloaded_count,
                   limit_locals, outcome, deleted, downloaded, del_failed, dir0, prev>>

\* lines 158-164: status 200, the optional transform (resize_and_pad returns
\* bytes and never raises, lines 70-72 and 139-141), and open(path, 'wb'),
\* which creates the file empty
DownloadOpen ==
    /\ pc = "download"
    /\ idx <= Len(selection)
    /\ ~Exists(dir, CurrentFile)
    /\ requests' = requests \cup {Current.id}
    /\ dir' = With(dir, CurrentFile, [mtime |-> now, size |-> 0, content |-> "part"])
    /\ pc' = "write"
    /\ UNCHANGED <<config, picture, remote, now, cycle, assets, has_error, protected_filenames,
                   selection, idx, downloaded_count, limit_locals, outcome, deleted,
                   downloaded, del_failed, clean, dir0, prev>>

\* lines 165-166: the bytes are written and the file closed, return True
DownloadWrite ==
    /\ pc = "write"
    /\ dir' = With(dir, CurrentFile,
                   [mtime |-> now, size |-> Bytes(CurrentFile, "whole"),
                    content |-> "whole"])
    /\ now' = Later(now)
    /\ downloaded' = downloaded \cup {CurrentFile}
    /\ downloaded_count' = downloaded_count + 1
    /\ idx' = idx + 1
    /\ pc' = "download"
    /\ UNCHANGED <<config, picture, remote, cycle, assets, has_error, protected_filenames,
                   selection, limit_locals, outcome, deleted, requests,
                   del_failed, clean, dir0, prev>>

\* lines 165, 169-172: f.write raises (disk full, I/O error): the exception is
\* caught, the file stays with the bytes written so far, return False
DownloadWriteRaises ==
    /\ pc = "write"
    /\ dir' = With(dir, CurrentFile,
                   [mtime |-> now, size |-> Bytes(CurrentFile, "part"),
                    content |-> "part"])
    /\ now' = Later(now)
    /\ clean' = FALSE
    /\ idx' = idx + 1
    /\ pc' = "download"
    /\ UNCHANGED <<config, picture, remote, cycle, assets, has_error, protected_filenames,
                   selection, downloaded_count, limit_locals, outcome,
                   deleted, downloaded, requests, del_failed, dir0, prev>>


(***************************************************************************)
(* enforce_limits (lines 174-223).                                         *)
(***************************************************************************)
\* the gathering without the test of lines 187-188
CandidatesUnprotecting(d, protected) ==
    {[path |-> f, mtime |-> d[f].mtime, size |-> d[f].size] :
        f \in {g \in DOMAIN d : ~StartsWithDot(g)}}

\* lines 183-192: the stat records of the regular, non-hidden files that are
\* not protected (every entry of the modelled directory is a regular file)
Candidates(d, protected) ==
    {[path |-> f, mtime |-> d[f].mtime, size |-> d[f].size] :
        f \in {g \in DOMAIN d : ~StartsWithDot(g) /\ g \notin protected}}

\* the orders a sequence of the records can have
Orderings(recs) ==
    {s \in [1..Cardinality(recs) -> recs] :
        \A i, j \in 1..Cardinality(recs) : i # j => s[i] # s[j]}

\* the sort with reverse = True: newest first
SortedNewestFirst(recs) ==
    {s \in Orderings(recs) :
        \A i, j \in 1..Len(s) : i < j => s[i].mtime >= s[j].mtime}

\* line 195: files.sort(key = mtime), oldest first; the sort is stable and
\* os.listdir gives the files in any order, so equal mtimes come in any order
SortedByMtime(recs) ==
    {s \in Orderings(recs) :
        \A i, j \in 1..Len(s) : i < j => s[i].mtime <= s[j].mtime}

\* line 192: the sum of the sizes
RECURSIVE SumSizes(_)
SumSizes(s) == IF s = <<>> THEN 0 ELSE Head(s).size + SumSizes(Tail(s))

\* the count loop stopping one file above the limit
CountExceededByTwo(n, max_images) == max_images > 0 /\ n > max_images + 1

\* line 200: the condition of the count loop
CountExceeded(n, max_images) == max_images > 0 /\ n > max_images

\* line 211
MaxBytes(max_local_gb) == max_local_gb * GiB

\* line 212: the condition of the size loop
SizeExceeded(total, max_local_gb, n) ==
    max_local_gb > 0 /\ total > MaxBytes(max_local_gb) /\ n > 0

\* the count loop without line 205
CountLoopTotalKept(total, size) == total

\* line 205: the running total after a removal of the count loop
CountLoopTotal(total, size) == total - size

\* line 217: the running total after a removal of the size loop
SizeLoopTotal(total, size) == total - size

\* lines 176-177: both limits are off
LimitsDisabled ==
    /\ pc = "limits"
    /\ MAX_IMAGES <= 0 /\ MAX_LOCAL_GB <= 0
    /\ pc' = "cycle_end"
    /\ UNCHANGED <<config, picture, remote, dir, now, cycle, locals, limit_locals, history>>

\* lines 179-197
LimitsGather ==
    /\ pc = "limits"
    /\ ~(MAX_IMAGES <= 0 /\ MAX_LOCAL_GB <= 0)
    /\ files' \in SortedByMtime(Candidates(dir, protected_filenames))
    /\ total_size' = SumSizes(files')
    /\ deleted_count' = 0
    /\ pc' = "limits_count"
    /\ UNCHANGED <<config, picture, remote, dir, now, cycle, locals, history>>

\* lines 200-206: the oldest candidate is removed
LimitsCountRemove ==
    /\ pc = "limits_count"
    /\ CountExceeded(Len(files), MAX_IMAGES)
    /\ LET to_delete == Head(files)
       IN  /\ files' = Tail(files)
           /\ dir' = Without(dir, to_delete.path)
           /\ total_size' = CountLoopTotal(total_size, to_delete.size)
           /\ deleted_count' = deleted_count + 1
           /\ deleted' = deleted \cup {[name |-> to_delete.path, by |-> "count"]}
    /\ clean' = FALSE
    /\ UNCHANGED <<config, picture, remote, now, pc, cycle, locals, outcome, downloaded,
                   requests, del_failed, dir0, prev>>

\* lines 200-204, 207-208: os.remove raises; the candidate is dropped
LimitsCountRemoveRaises ==
    /\ pc = "limits_count"
    /\ CountExceeded(Len(files), MAX_IMAGES)
    /\ files' = Tail(files)
    /\ del_failed' = del_failed \cup {Head(files).path}
    /\ clean' = FALSE
    /\ UNCHANGED <<config, picture, remote, dir, now, pc, cycle, locals, total_size,
                   deleted_count, outcome, deleted, downloaded, requests, dir0, prev>>

\* line 200: the count loop ends
LimitsCountExit ==
    /\ pc = "limits_count"
    /\ ~CountExceeded(Len(files), MAX_IMAGES)
    /\ pc' = "limits_size"
    /\ UNCHANGED <<config, picture, remote, dir, now, cycle, locals, limit_locals, history>>

\* lines 212-218: the oldest candidate is removed
LimitsSizeRemove ==
    /\ pc = "limits_size"
    /\ SizeExceeded(total_size, MAX_LOCAL_GB, Len(files))
    /\ LET to_delete == Head(files)
       IN  /\ files' = Tail(files)
           /\ dir' = Without(dir, to_delete.path)
           /\ total_size' = SizeLoopTotal(total_size, to_delete.size)
           /\ deleted_count' = deleted_count + 1
           /\ deleted' = deleted \cup {[name |-> to_delete.path, by |-> "size"]}
    /\ clean' = FALSE
    /\ UNCHANGED <<config, picture, remote, now, pc, cycle, locals, outcome, downloaded,
                   requests, del_failed, dir0, prev>>

\* lines 212-216, 219-220: os.remove raises; the candidate is dropped
LimitsSizeRemoveRaises ==
    /\ pc = "limits_size"
    /\ SizeExceeded(total_size, MAX_LOCAL_GB, Len(files))
    /\ files' = Tail(files)
    /\ del_failed' = del_failed \cup {Head(files).path}
    /\ clean' = FALSE
    /\ UNCHANGED <<config, picture, remote, dir, now, pc, cycle, locals, total_size,
                   deleted_count, outcome, deleted, downloaded, requests, dir0, prev>>

\* lines 212, 222-223: the size loop ends and enforce_limits returns
LimitsSizeExit ==
    /\ pc = "limits_size"
    /\ ~SizeExceeded(total_size, MAX_LOCAL_GB, Len(files))
    /\ pc' = "cycle_end"
    /\ UNCHANGED <<config, picture, remote, dir, now, cycle, locals, limit_locals, history>>


(***************************************************************************)
(* sync_loop: the end of a cycle (lines 295-301) and the environment.      *)
(***************************************************************************)
\* lines 297-298: --once leaves the loop and the process ends
CycleEndOnce ==
    /\ pc = "cycle_end"
    /\ once
    /\ pc' = "exited"
    /\ UNCHANGED <<config, picture, remote, dir, now, cycle, locals, limit_locals, history>>

\* lines 300-301: time.sleep(SYNC_INTERVAL) starts
CycleEndSleep ==
    /\ pc = "cycle_end"
    /\ ~once
    /\ pc' = "sleep"
    /\ prev' = [remote |-> remote, clean |-> clean, end |-> now]
    /\ UNCHANGED <<config, picture, remote, dir, now, cycle, locals, limit_locals, outcome,
                   deleted, downloaded, requests, del_failed, clean, dir0>>

\* the library changes on the server while the process sleeps
NoBad == [a \in Albums |-> -1]

RemoteStates ==
    {[albums |-> [a \in Albums |-> IF a = "A" THEN x ELSE y], favs |-> f, bad |-> NoBad] :
        x \in {{ID1, ID2}}, y \in {{ID2}}, f \in {{}, {ID1}}}

RemoteChange ==
    /\ pc = "sleep"
    /\ remote' \in RemoteStates \ {remote}
    /\ UNCHANGED <<config, picture, dir, now, pc, cycle, locals, limit_locals, history>>

\* the values the locals have before their first assignment
NoOutcome == [a \in Albums |-> "none"]

\* lines 301, 229-230: the sleep (SYNC_INTERVAL > 0 seconds, so the clock has
\* moved on) ends and the next cycle starts; the locals of the cycle before
\* are dead (each is assigned before it is read again)
WakeUp ==
    /\ pc = "sleep"
    /\ cycle < MaxCycles
    /\ cycle' = cycle + 1
    /\ now < MaxTime
    /\ now' = now + 1
    /\ pc' = "fetch"
    /\ assets' = <<>> /\ has_error' = FALSE /\ protected_filenames' = {}
    /\ selection' = <<>> /\ idx' = 1 /\ downloaded_count' = 0
    /\ files' = <<>> /\ total_size' = 0 /\ deleted_count' = 0
    /\ outcome' = NoOutcome /\ deleted' = {} /\ downloaded' = {} /\ requests' = {}
    /\ del_failed' = {} /\ clean' = TRUE /\ dir0' = dir
    /\ UNCHANGED <<config, picture, remote, dir, prev>>

(***************************************************************************)
(* The process from its start.                                             *)
(***************************************************************************)
LocalGBChoices == {0, 1}

\* the size of each file is the length of its content
Sized(d) == [f \in DOMAIN d |-> [d[f] EXCEPT !.size = Bytes(f, d[f].content)]]

\* directories of whole files: any of `names`, with any mtimes up to MaxMtime0
Dirs(names) ==
    {Sized(d) : d \in UNION {[S -> [mtime : 0..MaxMtime0, size : {0},
                                     content : {"whole"}]] : S \in SUBSET names}}

\* the directories the process finds at start: a hidden file, and possibly
\* a file left by an asset that is no longer in the library
InitialDirs == {d \in Dirs({HiddenFile, OrphanFile}) :
                   HiddenFile \in DOMAIN d /\ d[HiddenFile].mtime = 0}

InitLocals ==
    /\ assets = <<>> /\ has_error = FALSE /\ protected_filenames = {}
    /\ selection = <<>> /\ idx = 1 /\ downloaded_count = 0
    /\ files = <<>> /\ total_size = 0 /\ deleted_count = 0
    /\ outcome = NoOutcome /\ deleted = {} /\ downloaded = {} /\ requests = {}
    /\ del_failed = {} /\ clean = TRUE

Init ==
    /\ ALBUMS_FAVORITES \in BOOLEAN
    /\ RANDOM_SELECT \in 0..MaxSelect
    /\ MAX_IMAGES \in 0..MaxImages
    /\ MAX_LOCAL_GB \in LocalGBChoices
    /\ once \in BOOLEAN
    /\ environ = Configured
    /\ NoTransform
    /\ remote \in RemoteStates
    /\ dir \in InitialDirs
    /\ now = MaxMtime0
    /\ pc = "fetch"
    /\ cycle = 1
    /\ InitLocals
    /\ dir0 = dir
    /\ prev = [remote |-> remote, clean |-> FALSE, end |-> now]

Next ==
    \/ Fetch
    \/ OrphanPurge
    \/ Select
    \/ DownloadLoopEnd
    \/ DownloadRefresh
    \/ DownloadUtimeRaises
    \/ DownloadFails
    \/ DownloadOpen
    \/ DownloadWrite
    \/ DownloadWriteRaises
    \/ LimitsDisabled
    \/ LimitsGather
    \/ LimitsCountRemove
    \/ LimitsCountRemoveRaises
    \/ LimitsCountExit
    \/ LimitsSizeRemove
    \/ LimitsSizeRemoveRaises
    \/ LimitsSizeExit
    \/ CycleEndOnce
    \/ CycleEndSleep
    \/ RemoteChange
    \/ WakeUp

Spec == Init /\ [][Next]_vars


(***************************************************************************)
(* The process from __main__ (lines 303-312), in any environment.          *)
(***************************************************************************)
\* line 308: not API_KEY
GateClosed == API_KEY = ""

\* lines 308-310: exit(1) without a call of sync_loop
MainExit ==
    /\ pc = "main"
    /\ GateClosed
    /\ pc' = "exit1"
    /\ UNCHANGED <<config, picture, remote, dir, now, cycle, locals, limit_locals,
                   history>>

\* line 312: sync_loop is called and its first cycle starts
MainSync ==
    /\ pc = "main"
    /\ ~GateClosed
    /\ pc' = "fetch"
    /\ UNCHANGED <<config, picture, remote, dir, now, cycle, locals, limit_locals,
                   history>>

InitMain ==
    /\ environ \in Environs
    /\ ALBUMS_FAVORITES = TRUE
    /\ RANDOM_SELECT = 0
    /\ MAX_IMAGES \in 0..MaxImages
    /\ MAX_LOCAL_GB \in LocalGBChoices
    /\ once \in BOOLEAN
    /\ NoTransform
    /\ remote \in RemoteStates
    /\ dir \in InitialDirs
    /\ now = MaxMtime0
    /\ pc = "main"
    /\ cycle = 1
    /\ InitLocals
    /\ dir0 = dir
    /\ prev = [remote |-> remote, clean |-> FALSE, end |-> now]

NextMain ==
    \/ MainExit
    \/ MainSync
    \/ Next

SpecMain == InitMain /\ [][NextMain]_vars

(***************************************************************************)
(* enforce_limits alone: any call enforce_limits(DOWNLOAD_PATH, P) of line *)
(* 293, on any directory of whole files.                                   *)
(***************************************************************************)
DerivedName(id) == get_filename(AssetRecord(id, {}))

\* a library whose only album holds every asset, favs being the favourites
WholeLibrary(favs) ==
    [albums |-> [a \in Albums |-> IF a = "A" THEN AssetIds ELSE {}],
     favs |-> favs, bad |-> NoBad]

InitLimits ==
    /\ ALBUMS_FAVORITES = TRUE
    /\ RANDOM_SELECT = 0
    /\ MAX_IMAGES \in 0..LimitsMaxImages
    /\ MAX_LOCAL_GB \in LocalGBChoices
    /\ once = FALSE
    /\ environ = Configured
    /\ NoTransform
    /\ remote \in {WholeLibrary(f) : f \in SUBSET {ID1, ID2}}
    /\ \E d \in UNION {[S -> [mtime : 0..LimitsMaxMtime, size : {0},
                                content : {"whole"}]] :
                          S \in SUBSET {DerivedName(ID1), DerivedName(ID2),
                                        DerivedName(ID3), OrphanFile}} :
       \E h \in SUBSET {HiddenFile} :
          dir = Sized([f \in DOMAIN d \cup h |->
                          IF f \in DOMAIN d THEN d[f]
                          ELSE [mtime |-> 0, size |-> 0, content |-> "whole"]])
    /\ now = LimitsMaxMtime
    /\ pc = "limits"
    /\ cycle = 1
    /\ assets = AlbumItems("A", remote)
    /\ has_error = FALSE
    /\ protected_filenames = ProtectedOf(assets, ALBUMS_FAVORITES)
    /\ selection = assets /\ idx = Len(assets) + 1 /\ downloaded_count = 0
    /\ files = <<>> /\ total_size = 0 /\ deleted_count = 0
    /\ outcome = NoOutcome /\ deleted = {} /\ downloaded = {} /\ requests = {}
    /\ del_failed = {} /\ clean = TRUE
    /\ dir0 = dir
    /\ prev = [remote |-> remote, clean |-> FALSE, end |-> now]

NextLimits ==
    \/ LimitsDisabled
    \/ LimitsGather
    \/ LimitsCountRemove
    \/ LimitsCountRemoveRaises
    \/ LimitsCountExit
    \/ LimitsSizeRemove
    \/ LimitsSizeRemoveRaises
    \/ LimitsSizeExit

SpecLimits == InitLimits /\ [][NextLimits]_vars

(***************************************************************************)
(* The selection alone: lines 265-284 on any fetched set.                  *)
(***************************************************************************)
InitSelect ==
    /\ ALBUMS_FAVORITES \in BOOLEAN
    /\ RANDOM_SELECT \in 0..SelectMaxRandom
    /\ MAX_IMAGES = 0
    /\ MAX_LOCAL_GB = 0
    /\ once = FALSE
    /\ environ = Configured
    /\ NoTransform
    /\ remote \in {[albums |-> [a \in Albums |-> IF a = "A" THEN x ELSE {}],
                    favs |-> f, bad |-> NoBad] :
                      x \in SUBSET AssetIds, f \in SUBSET AssetIds}
    /\ dir = [f \in {} |-> 0]
    /\ now = 0
    /\ pc = "select"
    /\ cycle = 1
    /\ assets = AlbumItems("A", remote)
    /\ has_error = FALSE
    /\ protected_filenames = ProtectedOf(assets, ALBUMS_FAVORITES)
    /\ selection = <<>> /\ idx = 1 /\ downloaded_count = 0
    /\ files = <<>> /\ total_size = 0 /\ deleted_count = 0
    /\ outcome = [a \in Albums |-> "ok"]
    /\ deleted = {} /\ downloaded = {} /\ requests = {}
    /\ del_failed = {} /\ clean = TRUE
    /\ dir0 = dir
    /\ prev = [remote |-> remote, clean |-> FALSE, end |-> now]

NextSelect == Select

SpecSelect == InitSelect /\ [][NextSelect]_vars

(***************************************************************************)
(* get_assets alone: line 231 against any library, well-formed or not.     *)
(***************************************************************************)
InitFetch ==
    /\ ALBUMS_FAVORITES = TRUE
    /\ RANDOM_SELECT = 0
    /\ MAX_IMAGES = 0
    /\ MAX_LOCAL_GB = 0
    /\ once = FALSE
    /\ environ = Configured
    /\ NoTransform
    /\ \E x, y \in SUBSET AssetIds, f \in SUBSET {ID1} :
       \E bx \in -1..Cardinality(x), by \in -1..Cardinality(y) :
          remote = [albums |-> [a \in Albums |-> IF a = "A" THEN x ELSE y],
                    favs |-> f,
                    bad |-> [a \in Albums |-> IF a = "A" THEN bx ELSE by]]
    /\ dir = [f \in {} |-> 0]
    /\ now = 0
    /\ pc = "fetch"
    /\ cycle = 1
    /\ InitLocals
    /\ dir0 = dir
    /\ prev = [remote |-> remote, clean |-> FALSE, end |-> now]

NextFetch == Fetch

SpecFetch == InitFetch /\ [][NextFetch]_vars


(***************************************************************************)
(* get_filename alone: lines 239-241 on two favourites of any names.       *)
(***************************************************************************)
\* the characters of the names: kept ones, removed ones, the dot
NameChars == {"a", "b", "2", "-", "_", " ", ":", "."}

\* the texts of at most n characters
Texts(n) == UNION {[1..k -> NameChars] : k \in 0..n}

\* the name of the specification's example
ExampleName == <<"M", "y", ":", "P", "h", "o", "t", "o", "*", ".", "j", "p", "g">>

\* the records of an asset id: with an originalFileName of names, or without
Named(id, names) ==
    {[id |-> id, originalFileName |-> n, isFavorite |-> TRUE] : n \in names}
Unnamed(id) == [id |-> id, isFavorite |-> TRUE]

InitNames ==
    /\ environ = Configured
    /\ ALBUMS_FAVORITES = TRUE
    /\ RANDOM_SELECT = 0
    /\ MAX_IMAGES = 0
    /\ MAX_LOCAL_GB = 0
    /\ once = FALSE
    /\ NoTransform
    /\ remote = WholeLibrary({ID1, ID2})
    /\ dir = [f \in {} |-> 0]
    /\ now = 0
    /\ pc = "purge"
    /\ cycle = 1
    /\ \E a1 \in Named(ID1, Texts(MaxNameLen) \cup {ExampleName}),
          a2 \in Named(ID2, Texts(MaxNameLen2)) \cup {Unnamed(ID2)} :
          assets = <<a1, a2>>
    /\ has_error = FALSE
    /\ protected_filenames = {}
    /\ selection = <<>> /\ idx = 1 /\ downloaded_count = 0
    /\ files = <<>> /\ total_size = 0 /\ deleted_count = 0
    /\ outcome = [a \in Albums |-> "ok"]
    /\ deleted = {} /\ downloaded = {} /\ requests = {}
    /\ del_failed = {} /\ clean = TRUE
    /\ dir0 = dir
    /\ prev = [remote |-> remote, clean |-> FALSE, end |-> now]

NextNames == OrphanPurge

SpecNames == InitNames /\ [][NextNames]_vars

(***************************************************************************)
(* resize_and_pad (lines 62-141), as download_asset calls it at line 162.  *)
(* A picture is the size Image.open and exif_transpose give it (lines 75   *)
(* and 88), or undecodable; the result is the bytes it was given           *)
(* ("original") or a canvas with the foreground pasted on it.              *)
(***************************************************************************)
DigitChars == <<"0", "1", "2", "3", "4", "5", "6", "7", "8", "9">>

\* int(s) of lines 69: defined for the texts made of decimal digits (the
\* texts of the model hold no sign, blank or underscore)
IsInt(s) == s # <<>> /\ \A i \in 1..Len(s) : \E d \in 1..10 : DigitChars[d] = s[i]

RECURSIVE IntOf(_)
IntOf(s) ==
    IF s = <<>> THEN 0
    ELSE 10 * IntOf(SubSeq(s, 1, Len(s) - 1))
         + (CHOOSE d \in 0..9 : DigitChars[d + 1] = s[Len(s)])

\* str.lower() on the alphabet of the targets
Lower(s) == [i \in 1..Len(s) |-> IF s[i] = "X" THEN "x" ELSE s[i]]

\* str.split(c): the pieces between the occurrences of c
RECURSIVE Split(_, _)
Split(s, c) ==
    LET I == {i \in 1..Len(s) : s[i] = c}
    IN  IF I = {} THEN <<s>>
        ELSE LET first == CHOOSE i \in I : \A j \in I : i <= j
             IN  <<SubSeq(s, 1, first - 1)>> \o Split(SubSeq(s, first + 1, Len(s)), c)

\* lines 67-72: the unpacking of other than two pieces and int() of a text
\* that is no number raise ValueError
ParseTarget(target_size_str) ==
    LET parts == Split(Lower(target_size_str), "x")
    IN  IF Len(parts) = 2 /\ IsInt(parts[1]) /\ IsInt(parts[2])
        THEN [ok |-> TRUE, w |-> IntOf(parts[1]), h |-> IntOf(parts[2])]
        ELSE [ok |-> FALSE]

\* int(a / b) and int(a * (b / c)) for the sizes of the model, where the float
\* quotient truncates to the exact one
Trunc(a, b) == a \div b

\* round(n2 / 2), Python's rounding of a half to the even neighbour, which
\* Image.crop applies to each coordinate of its box
RoundHalf(n2) ==
    LET k == n2 \div 2
    IN  IF n2 % 2 = 0 THEN k ELSE IF k % 2 = 0 THEN k ELSE k + 1

Original == [kind |-> "original"]

resize_and_pad(img, target_size_str) ==
    LET t == ParseTarget(target_size_str)
    IN  IF ~t.ok THEN Original                            \* lines 70-72
        ELSE IF img.kind # "image" THEN Original          \* line 75 raises
        ELSE IF t.h = 0 THEN Original                     \* line 91 raises
        ELSE
          LET target_w == t.w
              target_h == t.h
              wider == img.w * target_h > target_w * img.h          \* line 95
              new_w == IF wider THEN target_w ELSE Trunc(target_h * img.w, img.h)
              new_h == IF wider THEN Trunc(target_w * img.h, img.w) ELSE target_h
              bg_w  == IF wider THEN Trunc(target_h * img.w, img.h) ELSE target_w
              bg_h  == IF wider THEN target_h ELSE Trunc(target_w * img.h, img.w)
          IN  \* Image.resize raises ValueError for a side below 1 (lines 104, 117)
              IF new_w < 1 \/ new_h < 1 \/ bg_w < 1 \/ bg_h < 1 THEN Original
              ELSE [kind |-> "canvas",
                    \* lines 121-125: the size of the cropped background
                    w |-> RoundHalf(bg_w + target_w) - RoundHalf(bg_w - target_w),
                    h |-> RoundHalf(bg_h + target_h) - RoundHalf(bg_h - target_h),
                    fg_w |-> new_w, fg_h |-> new_h,
                    \* lines 128-129
                    x |-> (target_w - new_w) \div 2,
                    y |-> (target_h - new_h) \div 2]

\* lines 161-162 with TARGET_SIZE set
Transform ==
    /\ pc = "resize"
    /\ TARGET_SIZE # <<>>
    /\ output' = resize_and_pad(image, TARGET_SIZE)
    /\ pc' = "resized"
    /\ UNCHANGED <<config, image, remote, dir, now, cycle, locals, limit_locals,
                   history>>

\* line 161 with TARGET_SIZE empty: the content stays as downloaded
TransformSkipped ==
    /\ pc = "resize"
    /\ TARGET_SIZE = <<>>
    /\ output' = Original
    /\ pc' = "resized"
    /\ UNCHANGED <<config, image, remote, dir, now, cycle, locals, limit_locals,
                   history>>

\* the values of TARGET_SIZE: 'WxH' and 'WXH', and texts that are no size
TargetTexts ==
    {<<DigitChars[W + 1], x, DigitChars[H + 1]>> :
        W \in 0..MaxTarget, H \in 0..MaxTarget, x \in {"x", "X"}}
    \cup {<<>>, <<"3">>, <<"3", "x">>, <<"x", "3">>, <<"3", "x", "2", "x", "1">>,
          <<"1", "2", "x", "3">>}

Pictures ==
    [kind : {"image"}, w : 1..MaxSide, h : 1..MaxSide] \cup {[kind |-> "undecodable"]}

InitResize ==
    /\ environ = Configured
    /\ ALBUMS_FAVORITES = TRUE
    /\ RANDOM_SELECT = 0
    /\ MAX_IMAGES = 0
    /\ MAX_LOCAL_GB = 0
    /\ once = FALSE
    /\ TARGET_SIZE \in TargetTexts
    /\ image \in Pictures
    /\ output = NoImage
    /\ remote = WholeLibrary({})
    /\ dir = [f \in {} |-> 0]
    /\ now = 0
    /\ pc = "resize"
    /\ cycle = 1
    /\ InitLocals
    /\ dir0 = dir
    /\ prev = [remote |-> remote, clean |-> FALSE, end |-> now]

NextResize ==
    \/ Transform
    \/ TransformSkipped

SpecResize == InitResize /\ [][NextResize]_vars

(***************************************************************************)
(* Properties.                                                             *)
(***************************************************************************)
\* the names of the files of directory d that retention may remove
Evictable(d, protected) == {f \in DOMAIN d : ~StartsWithDot(f) /\ f \notin protected}

\* the total size of the files S of directory d
RECURSIVE TotalBytes(_, _)
TotalBytes(d, S) ==
    IF S = {} THEN 0
    ELSE LET f == CHOOSE g \in S : TRUE
         IN  d[f].size + TotalBytes(d, S \ {f})

\* the files of the directory at the start of the cycle that are gone
Removed == (DOMAIN dir0) \ (DOMAIN dir)

\* C1 as stated: in a cycle whose fetch returned has_error = true no file
\* of the directory is deleted, whatever the limits are.
C1_NoDeletionOnFetchError ==
    has_error => (deleted = {} /\ Removed = {})

\* C1, amended: in a cycle whose fetch returned has_error = true the orphan
\* purge removes nothing, so no file is deleted before the retention step;
\* retention still runs and removes only unprotected files, and with both
\* limits off no file is deleted in the cycle.
C1_OrphanPurgeSkippedOnFetchError ==
    has_error =>
        /\ \A d \in deleted : d.by \in {"count", "size"} /\ d.name \notin protected_filenames
        /\ pc \in {"purge", "select", "download", "write", "limits"} => Removed = {}
        /\ (MAX_IMAGES <= 0 /\ MAX_LOCAL_GB <= 0) => Removed = {}

\* a cycle with a fetch error is over and a file that no fetched asset
\* accounts for is still there
C1_Witness ==
    /\ has_error
    /\ pc = "cycle_end"
    /\ Orphans(DOMAIN dir, {assets[i].id : i \in 1..Len(assets)}) # {}

\* C2: enforce_limits(dir, P) removes no file whose name is in P, whatever
\* MAX_IMAGES and MAX_LOCAL_GB are, also when the directory still holds more
\* files than MAX_IMAGES afterwards.
C2_ProtectionAbsolute ==
    /\ \A d \in deleted : d.name \notin protected_filenames
    /\ \A f \in protected_filenames \cap DOMAIN dir0 :
          f \in DOMAIN dir /\ dir[f] = dir0[f]

\* enforce_limits has returned after removing a file, a protected file is in
\* the directory, and the directory still holds more than MAX_IMAGES files
C2_Witness ==
    /\ pc = "cycle_end"
    /\ deleted # {}
    /\ protected_filenames \cap DOMAIN dir # {}
    /\ MAX_IMAGES > 0
    /\ Cardinality({f \in DOMAIN dir : ~StartsWithDot(f)}) > MAX_IMAGES

\* the case of C3: N evictable files with distinct mtimes, 0 < MAX_IMAGES < N,
\* no size limit, every removal succeeding
C3_Case ==
    LET names == Evictable(dir0, protected_filenames)
    IN  /\ \A f, g \in names : f # g => dir0[f].mtime # dir0[g].mtime
        /\ 0 < MAX_IMAGES /\ MAX_IMAGES < Cardinality(names)
        /\ MAX_LOCAL_GB <= 0
        /\ del_failed = {}

\* C3: in that case enforce_limits removes exactly N - MAX_IMAGES files, and
\* they are the N - MAX_IMAGES files with the smallest mtimes.
C3_EvictionOrder ==
    (pc = "cycle_end" /\ C3_Case) =>
        LET names == Evictable(dir0, protected_filenames)
        IN  /\ Removed \subseteq names
            /\ Cardinality(Removed) = Cardinality(names) - MAX_IMAGES
            /\ \A r \in Removed, k \in names \ Removed : dir0[r].mtime < dir0[k].mtime

\* enforce_limits has returned in the case of C3 with two files or more to remove
C3_Witness ==
    /\ pc = "cycle_end"
    /\ C3_Case
    /\ Cardinality(Evictable(dir0, protected_filenames)) - MAX_IMAGES >= 2

\* C4: the size loop removes a file only while the unprotected files of the
\* directory total more than MAX_LOCAL_GB * 2^30 bytes, the file it removes
\* is the oldest of those it has not yet tried, and when the loop ends the
\* total is within the limit or every unprotected file left is one whose
\* removal failed.
C4_SizeEviction ==
    /\ [][(pc = "limits_size" /\ DOMAIN dir' # DOMAIN dir) =>
            LET gone == CHOOSE f \in DOMAIN dir : f \notin DOMAIN dir'
                left == Evictable(dir', protected_filenames)
            IN  /\ MAX_LOCAL_GB > 0
                /\ TotalBytes(dir, Evictable(dir, protected_filenames))
                      > MAX_LOCAL_GB * GiB
                /\ gone \in Evictable(dir, protected_filenames)
                /\ \A g \in left \ del_failed : dir[gone].mtime <= dir[g].mtime
         ]_vars
    /\ [][(pc = "limits_size" /\ pc' # "limits_size" /\ MAX_LOCAL_GB > 0) =>
            \/ TotalBytes(dir, Evictable(dir, protected_filenames))
                  <= MAX_LOCAL_GB * GiB
            \/ Evictable(dir, protected_filenames) \subseteq del_failed
         ]_vars

\* the size loop removed a file and stopped with unprotected files left
C4_Witness ==
    /\ pc = "cycle_end"
    /\ \E d \in deleted : d.by = "size"
    /\ del_failed = {}
    /\ Evictable(dir, protected_filenames) # {}


\* the assets lines 275-284 draw from: the non-favourites, or every asset
\* when favourites are not tracked
Others ==
    LET NotFavorite(a) == ~IsFavorite(a)
    IN  IF ALBUMS_FAVORITES THEN SelectSeq(assets, NotFavorite) ELSE assets

\* the cycle is the second of two in a row: it follows a cycle without fetch
\* error, failed download, failed removal or exceeded limit, its own fetch is
\* done and had no error, the library is the one the first cycle saw, and it
\* is not over yet (prev is the cycle before until the sleep starts)
SecondRun ==
    /\ cycle >= 2
    /\ pc \notin {"fetch", "sleep"}
    /\ ~has_error
    /\ prev.clean
    /\ prev.remote = remote

\* no download and no deletion so far in the cycle: the directory holds the
\* files it held at the start of the cycle, each with its size and content
OnlyMtimesChanged ==
    /\ downloaded = {} /\ deleted = {}
    /\ DOMAIN dir = DOMAIN dir0
    /\ \A f \in DOMAIN dir :
          dir[f].size = dir0[f].size /\ dir[f].content = dir0[f].content

\* C5 as stated (every download and removal of the first cycle succeeding):
\* the second of two cycles against an unchanged library, without fetch error
\* or exceeded limit, downloads nothing and deletes nothing.
C5_Idempotence == SecondRun => OnlyMtimesChanged

\* C5, amended: the same when moreover no random sample is drawn
\* (RANDOM_SELECT = 0, or no more than RANDOM_SELECT assets to draw from).
C5_IdempotenceWithoutSampling ==
    (SecondRun /\ (RANDOM_SELECT <= 0 \/ Len(Others) <= RANDOM_SELECT)) =>
        OnlyMtimesChanged

\* such a second cycle is over and has refreshed the mtime of a file
C5_Witness ==
    /\ SecondRun
    /\ RANDOM_SELECT <= 0 \/ Len(Others) <= RANDOM_SELECT
    /\ pc = "cycle_end"
    /\ \E f \in DOMAIN dir \cap DOMAIN dir0 : dir[f].mtime > dir0[f].mtime

Min(a, b) == IF a <= b THEN a ELSE b

\* the positions of the selection that hold a non-favourite
SelectedOthers == {i \in 1..Len(selection) : ~IsFavorite(selection[i])}

\* C6 as stated: with RANDOM_SELECT = R > 0 and n non-favourites fetched, the
\* selection holds exactly min(R, n) distinct non-favourites, plus every
\* favourite when favourites are tracked; with R = 0 it holds every fetched
\* asset; no asset id is in it twice.
C6_SelectionBound ==
    pc = "download" =>
        LET n == Cardinality({i \in 1..Len(assets) : ~IsFavorite(assets[i])})
        IN  /\ \A i, j \in 1..Len(selection) :
                  i # j => selection[i].id # selection[j].id
            /\ RANDOM_SELECT > 0 =>
                  /\ Cardinality(SelectedOthers) = Min(RANDOM_SELECT, n)
                  /\ ALBUMS_FAVORITES =>
                        \A i \in 1..Len(assets) :
                            IsFavorite(assets[i]) => assets[i] \in Range(selection)
            /\ RANDOM_SELECT = 0 => Range(selection) = Range(assets)

\* C6, amended: that holds when favourites are tracked; when they are not,
\* the favourite flag plays no part and with R > 0 the selection holds exactly
\* min(R, m) distinct assets of the m fetched ones.
C6_SelectionBoundByTracking ==
    pc = "download" =>
        LET n == Cardinality({i \in 1..Len(assets) : ~IsFavorite(assets[i])})
        IN  /\ \A i, j \in 1..Len(selection) :
                  i # j => selection[i].id # selection[j].id
            /\ Range(selection) \subseteq Range(assets)
            /\ (RANDOM_SELECT > 0 /\ ALBUMS_FAVORITES) =>
                  /\ Cardinality(SelectedOthers) = Min(RANDOM_SELECT, n)
                  /\ \A i \in 1..Len(assets) :
                        IsFavorite(assets[i]) => assets[i] \in Range(selection)
            /\ (RANDOM_SELECT > 0 /\ ~ALBUMS_FAVORITES) =>
                  Len(selection) = Min(RANDOM_SELECT, Len(assets))
            /\ RANDOM_SELECT <= 0 => Range(selection) = Range(assets)

\* a sample was drawn from more non-favourites than RANDOM_SELECT, beside a
\* favourite
C6_Witness ==
    /\ pc = "download"
    /\ ALBUMS_FAVORITES
    /\ RANDOM_SELECT > 0
    /\ Len(Others) > RANDOM_SELECT
    /\ \E i \in 1..Len(selection) : IsFavorite(selection[i])

\* C7: get_assets returns has_error = true exactly when a source failed, and
\* a map that holds exactly the records of the sources that did not fail,
\* one per asset id.
C7_FetcherResult ==
    pc = "purge" =>
        LET good == {a \in Albums : outcome[a] = "ok"}
        IN  /\ has_error <=> good # Albums
            /\ Range(assets) =
                  {AssetRecord(id, remote.favs) : id \in UNION {remote.albums[a] : a \in good}}
            /\ \A i, j \in 1..Len(assets) : i # j => assets[i].id # assets[j].id

\* C8: for a file that exists, download_asset makes no request, leaves the
\* content and the size of the file, sets its mtime to the current time and
\* returns False (the loop of line 288 goes on, downloaded_count as it was).
C8_AlreadyPresent ==
    [][(pc = "download" /\ idx <= Len(selection) /\ Exists(dir, CurrentFile)) =>
          /\ requests' = requests
          /\ DOMAIN dir' = DOMAIN dir
          /\ dir'[CurrentFile].size = dir[CurrentFile].size
          /\ dir'[CurrentFile].content = dir[CurrentFile].content
          /\ dir'[CurrentFile].mtime = now
          /\ pc' = "download" /\ idx' = idx + 1
          /\ downloaded_count' = downloaded_count
      ]_vars

\* C9, at the points where download_asset is not in the middle of a write:
\* no file of the directory holds less than its whole content (a download
\* that fails leaves no partial file behind).
C9_NoPartialFileLeft ==
    pc # "write" => \A f \in DOMAIN dir : dir[f].content = "whole"

\* C10: no failure of a fetch, a download, a transform or a removal leaves
\* download_asset or sync_loop as an exception.
C10_NeverAborts == pc # "crashed"

\* C11: when IMMICH_URL or API_KEY is absent from the environment the process
\* exits with a non-zero status and no cycle is attempted: it is never past
\* the gate of __main__, nothing is requested, created or removed.
C11_StartupGate ==
    ("IMMICH_URL" \notin DOMAIN environ \/ "API_KEY" \notin DOMAIN environ) =>
        /\ pc \in {"main", "exit1"}
        /\ requests = {} /\ downloaded = {} /\ deleted = {}
        /\ dir = dir0

\* C12: with --once the process runs one cycle and then ends (it never
\* sleeps, never starts a second cycle and ends only by leaving the loop);
\* without --once the process never ends by itself.
C12_OnceOrForever ==
    /\ once => (cycle = 1 /\ pc \notin {"sleep", "crashed"})
    /\ ~once => pc \notin {"exited", "crashed"}

\* the name C13 describes for a named asset: the base without the characters
\* other than alphanumerics, ' ', '-' and '_', then '-', the id, the extension
InClaim(c) == c \in Letters \cup Digits \cup {" ", "-", "_"}
ClaimedName(a) ==
    LET parts == SplitExt(a.originalFileName)
    IN  SelectSeq(parts.base, InClaim) \o <<"-">> \o a.id \o parts.ext

\* s without the spaces at its two ends
Trimmed(s) ==
    LET I == {i \in 1..Len(s) : s[i] # " "}
    IN  IF I = {} THEN <<>>
        ELSE SubSeq(s, CHOOSE i \in I : \A j \in I : i <= j,
                       CHOOSE i \in I : \A j \in I : j <= i)

\* the same name with the kept base trimmed, and 'img' for a missing name
TrimmedName(a) ==
    LET parts == SplitExt(IF "originalFileName" \in DOMAIN a
                          THEN a.originalFileName ELSE <<"i", "m", "g">>)
    IN  Trimmed(SelectSeq(parts.base, InClaim)) \o <<"-">> \o a.id \o parts.ext

\* the names derived at line 241 are in protected_filenames once the
\* protected set is built
NamesDerived == pc = "select"

\* C13 as stated: the derived name of an asset is its base name with exactly
\* the characters other than alphanumerics, space, hyphen and underscore
\* removed, every kept character in place, then '-', the id and the extension.
C13_DerivedName ==
    NamesDerived =>
        \A i \in 1..Len(assets) :
            "originalFileName" \in DOMAIN assets[i] =>
                ClaimedName(assets[i]) \in protected_filenames

\* C13, amended: the same with the spaces at the two ends of the kept base
\* removed as well, and 'img' as the name of an asset that has none.
C13_DerivedNameTrimmed ==
    NamesDerived =>
        protected_filenames = {TrimmedName(assets[i]) : i \in 1..Len(assets)}

\* the example of the specification is derived, beside an asset without name
C13_Witness ==
    /\ NamesDerived
    /\ assets[1].originalFileName = ExampleName
    /\ "originalFileName" \notin DOMAIN assets[2]
    /\ <<"M", "y", "P", "h", "o", "t", "o", "-", "a", "1", ".", "j", "p", "g">>
          \in protected_filenames

\* C14: for a decodable w x h picture and a target 'WxH' of positive sizes,
\* resize_and_pad returns a canvas of exactly W x H; the foreground has width
\* W when w/h > W/H and height H otherwise, its other side keeps the ratio
\* of the picture (truncated to a pixel), it fits in the canvas and it is
\* pasted at ((W - fw) // 2, (H - fh) // 2).
C14_LetterboxGeometry ==
    (pc = "resized" /\ image.kind = "image") =>
        \A W, H \in 1..9 :
            TARGET_SIZE \in {<<DigitChars[W + 1], x, DigitChars[H + 1]>> : x \in {"x", "X"}} =>
                /\ output.kind = "canvas"
                /\ output.w = W /\ output.h = H
                /\ IF image.w * H > W * image.h
                   THEN /\ output.fg_w = W
                        /\ output.fg_h * image.w <= W * image.h
                        /\ W * image.h < (output.fg_h + 1) * image.w
                   ELSE /\ output.fg_h = H
                        /\ output.fg_w * image.h <= H * image.w
                        /\ H * image.w < (output.fg_w + 1) * image.h
                /\ output.fg_w <= W /\ output.fg_h <= H
                /\ output.x = (W - output.fg_w) \div 2
                /\ output.y = (H - output.fg_h) \div 2

\* the order of the steps of a cycle, as pairs of positions
StepOrder ==
    {<<"fetch", "purge">>, <<"purge", "select">>, <<"select", "download">>,
     <<"download", "write">>, <<"write", "download">>, <<"download", "limits">>,
     <<"download", "crashed">>, <<"limits", "limits_count">>,
     <<"limits", "cycle_end">>, <<"limits_count", "limits_size">>,
     <<"limits_size", "cycle_end">>, <<"cycle_end", "exited">>,
     <<"cycle_end", "sleep">>, <<"sleep", "fetch">>}

\* the files removed, created or written by a step
RemovedByStep == {f \in DOMAIN dir : f \notin DOMAIN dir'}
WrittenByStep ==
    {f \in DOMAIN dir' : f \notin DOMAIN dir \/ dir'[f] # dir[f]}
RequestedByStep == requests' \ requests

\* C15: the steps of a cycle run in the order fetch, protected set and orphan
\* purge, selection, download, retention; a file is removed as an orphan
\* only after the fetch of every source is over, a download (request, file
\* written or touched) happens only after the purge and the selection, and
\* retention removes a file only after the last download of the cycle.
C15_StepOrder ==
    [][/\ pc' # pc => <<pc, pc'>> \in StepOrder
       /\ RemovedByStep # {} =>
             \/ /\ pc = "purge"
                /\ \A a \in Albums : outcome[a] # "none"
                /\ downloaded = {} /\ requests = {}
                /\ \A d \in deleted' : d.by = "orphan"
             \/ /\ pc \in {"limits_count", "limits_size"}
                /\ idx > Len(selection)
                /\ WrittenByStep = {} /\ RequestedByStep = {}
       /\ (WrittenByStep # {} \/ RequestedByStep # {}) =>
             /\ pc \in {"download", "write"}
             /\ RemovedByStep = {}
             /\ \A d \in deleted : d.by = "orphan"
      ]_vars

\* a cycle in which the purge removed a file, the loop downloaded one and
\* retention removed one
C15_Witness ==
    /\ pc = "cycle_end"
    /\ \E d \in deleted : d.by = "orphan"
    /\ downloaded # {}
    /\ \E d \in deleted : d.by \in {"count", "size"}

\* the text a occurs in the text f, position by position
Occurs(a, f) ==
    \E k \in 1..Len(f) :
        k + Len(a) - 1 <= Len(f) /\ \A i \in 1..Len(a) : f[k + i - 1] = a[i]

\* the ids of the fetched catalog
FetchedIds == {assets[i].id : i \in 1..Len(assets)}

\* the orphan purge of a cycle without fetch error is over and each of its
\* removals succeeded
PurgeDone ==
    /\ pc = "select"
    /\ ~has_error
    /\ del_failed = {}

\* C16: in a cycle without fetch error, removals succeeding, the orphan purge
\* removes exactly the non-hidden files whose name contains no fetched asset
\* id; the file of an asset of the fetched catalog stays.
C16_OrphanPurgeRule ==
    PurgeDone =>
        /\ Removed = {f \in DOMAIN dir0 :
                         /\ Head(f) # "."
                         /\ \A id \in FetchedIds : ~Occurs(id, f)}
        /\ \A f \in DOMAIN dir : dir[f] = dir0[f]
        /\ \A i \in 1..Len(assets) :
              get_filename(assets[i]) \in DOMAIN dir0 =>
                  get_filename(assets[i]) \in DOMAIN dir

\* the purge removed an orphan and left the file of a fetched asset
C16_Witness ==
    /\ PurgeDone
    /\ Removed # {}
    /\ \E i \in 1..Len(assets) : get_filename(assets[i]) \in DOMAIN dir

FetchedFavourites == {a \in Range(assets) : "isFavorite" \in DOMAIN a /\ a.isFavorite}

\* the download of asset a was tried in the cycle and created no whole file
DownloadFailed(a) == a.id \in requests /\ get_filename(a) \notin downloaded

\* C18: with favourites tracked, at the end of a cycle the derived file of
\* each favourite of the fetched set is in the directory, unless its download
\* failed, whatever RANDOM_SELECT, MAX_IMAGES and MAX_LOCAL_GB are.
C18_FavouritesKept ==
    (pc = "cycle_end" /\ ALBUMS_FAVORITES) =>
        \A a \in FetchedFavourites :
            ~DownloadFailed(a) => get_filename(a) \in DOMAIN dir

\* a cycle with RANDOM_SELECT set ends with the file of a favourite in the
\* directory, after retention removed a file
C18_Witness ==
    /\ pc = "cycle_end"
    /\ ALBUMS_FAVORITES
    /\ RANDOM_SELECT > 0
    /\ \E d \in deleted : d.by \in {"count", "size"}
    /\ \E a \in FetchedFavourites : get_filename(a) \in DOMAIN dir

\* the files of the assets selected in the cycle, and the files retention
\* may remove that belong to none of them
SelectedFiles == {get_filename(selection[i]) : i \in 1..Len(selection)}
Stale(d) == Evictable(d, protected_filenames) \ SelectedFiles

\* C19 as stated: retention removes the file of an asset selected in the
\* cycle only when no unprotected, non-hidden file of an asset that was not
\* selected is left in the directory.
C19_StaleFirst ==
    [][(pc \in {"limits_count", "limits_size"} /\ RemovedByStep \cap SelectedFiles # {})
          => Stale(dir) = {}]_vars

\* C19, amended: that holds when every removal of the retention step
\* succeeds and every file that was not selected is older than the start of
\* the cycle.
C19_StaleFirstWhenOlder ==
    [][(/\ pc \in {"limits_count", "limits_size"}
        /\ RemovedByStep \cap SelectedFiles # {}
        /\ del_failed = {}
        /\ \A g \in Stale(dir) : dir[g].mtime < prev.end)
          => Stale(dir) = {}]_vars

\* retention removed a file that was not selected and older than the cycle,
\* then the file of a selected asset, each removal succeeding
C19_Witness ==
    /\ pc = "cycle_end"
    /\ del_failed = {}
    /\ \E d \in deleted :
          /\ d.by \in {"count", "size"}
          /\ d.name \in DOMAIN dir0 \ SelectedFiles
          /\ dir0[d.name].mtime < prev.end
    /\ \E d \in deleted : d.by \in {"count", "size"} /\ d.name \in SelectedFiles
    /\ \A g \in DOMAIN dir0 \ SelectedFiles : dir0[g].mtime < prev.end

\* C20: when every removal succeeds, at the end of a cycle the unprotected,
\* non-hidden files of the directory are at most MAX_IMAGES if MAX_IMAGES > 0
\* and total at most MAX_LOCAL_GB * 2^30 bytes if MAX_LOCAL_GB > 0, whatever
\* the cycle downloaded.
C20_BudgetsHold ==
    (pc = "cycle_end" /\ del_failed = {}) =>
        LET left == Evictable(dir, protected_filenames)
        IN  /\ MAX_IMAGES > 0 => Cardinality(left) <= MAX_IMAGES
            /\ MAX_LOCAL_GB > 0 => TotalBytes(dir, left) <= MAX_LOCAL_GB * GiB

\* a cycle that downloaded a file ends with both limits set, after retention
\* removed a file for the count
C20_Witness ==
    /\ pc = "cycle_end"
    /\ del_failed = {}
    /\ MAX_IMAGES > 0 /\ MAX_LOCAL_GB > 0
    /\ downloaded # {}
    /\ \E d \in deleted : d.by = "count"

=============================================================================
